---- MODULE Spec2Model ----
(***************************************************************************)
(* A model of the memory-reuse primitives of ry26 (src/src/lib.rs):         *)
(*   FlatObjectPool     one growable buffer plus a bounded list of free     *)
(*                      (begin,end) ranges                                  *)
(*   ObjectPool         a bounded stack of recycled vectors                 *)
(*   DoubleBuffer       front/back vectors on top of an ObjectPool          *)
(*   DataPointSequence  staged/committed append-only log on top of a        *)
(*                      FlatObjectPool                                      *)
(* Indices are the source's 0-based indices; slot i of a Vec is element     *)
(* i+1 of the sequence that models it.  An element (T, DataPoint) is a      *)
(* small natural number and T::default() is 0.                              *)
(***************************************************************************)
EXTENDS Naturals, Integers, Sequences, FiniteSets, Bags, TLC

VARIABLES
    buffer,        \* FlatObjectPool.buffer
    free_ranges,   \* FlatObjectPool.free_ranges, <<begin, end>> pairs
    capacity,      \* FlatObjectPool.capacity
    available,     \* ObjectPool.available
    pool_capacity, \* ObjectPool.capacity
    front,         \* DoubleBuffer.front
    back,          \* DoubleBuffer.back
    current_end,   \* DataPointSequence.current_end
    next_end,      \* DataPointSequence.next_end
    step,          \* DataPointSequence.step
    initial_size,  \* history: the buffer_size given to FlatObjectPool::new
    loans,         \* history: bag of the non-empty ranges on loan
    dropped,       \* history: ranges a release cleared but could not keep
    misused,       \* history: some release passed a range not on loan
    log,           \* history: values added to the sequence since new/clear
    ks,            \* history: number of values added before each update
    peak,          \* history: the largest next_end since construction
    last,          \* history: the latest call, its arguments and its result
    prev           \* history: the call before the latest one

arenaVars == <<buffer, free_ranges, capacity, initial_size, loans, dropped,
               misused>>
poolVars == <<available, pool_capacity>>
swapVars == <<front, back>>
seqVars == <<current_end, next_end, step, log, ks, peak>>
vars == <<buffer, free_ranges, capacity, available, pool_capacity, front, back,
          current_end, next_end, step, initial_size, loans, dropped, misused,
          log, ks, peak, last, prev>>

\* ------------------------------------------------------------------ bounds

\* Largest element value; 0 is T::default().
MaxVal == 2
\* Disciplined arena runs: largest free-list capacity, initial buffer size,
\* requested size, and buffer length.
LoanMaxCap == 2
LoanMaxInit == 1
LoanMaxSize == 3
LoanMaxBuf == 6

\* Unrestricted arena runs: largest free-list capacity, initial buffer size,
\* buffer length, and number of ranges the caller holds at a time.
ArenaMaxCap == 1
ArenaMaxInit == 1
ArenaMaxBuf == 2
ArenaMaxLoans == 1
WriteMaxBuf == 4
DropMaxBuf == 2
\* Runs with a repeated release: largest free-list capacity and buffer length.
DoubleMaxCap == 3
DoubleMaxBuf == 3

\* ObjectPool and DoubleBuffer runs: largest pool capacity and vector length.
PoolMaxCap == 3
PoolMaxLen == 2
\* DataPointSequence runs: largest initial buffer size, number of points
\* added since new/clear, and step.
SeqMaxInit == 2
SeqMaxLen == 3
SeqMaxStep == 3

Default == 0
Values == 0..MaxVal
\* The arena never inspects an element: a slot holds the default value or a
\* written one.
ArenaValues == {Default, 1}

\* --------------------------------------------------------------- sequences

\* Vec::remove(i), i 0-based.
VecRemove(v, i) == SubSeq(v, 1, i) \o SubSeq(v, i + 2, Len(v))

\* Vec::resize(n, T::default()).
VecResize(v, n) ==
    IF n <= Len(v) THEN SubSeq(v, 1, n)
    ELSE v \o [k \in 1..(n - Len(v)) |-> Default]

\* vec![T::default(); n]
VecFilled(n) == [k \in 1..n |-> Default]

Max(a, b) == IF a >= b THEN a ELSE b

\* ---------------------------------------------------------- FlatObjectPool

\* The state FlatObjectPool::new builds.
Flat_new(buffer_size, cap) ==
    [buffer |-> VecFilled(buffer_size), free_ranges |-> <<>>, capacity |-> cap]

\* The loop of acquire: the first index i >= from with end - begin >= size,
\* or Len(fr) when there is none.
RECURSIVE Flat_scan(_, _, _)
Flat_scan(fr, size, from) ==
    IF from >= Len(fr) THEN Len(fr)
    ELSE IF fr[from + 1][2] - fr[from + 1][1] >= size THEN from
    ELSE Flat_scan(fr, size, from + 1)

\* A plausible slip: the matched range stays in the free list.
Flat_acquire_keeps(buf, fr, cap, size) ==
    LET i == Flat_scan(fr, size, 0) IN
    IF i < Len(fr)
    THEN [ret |-> <<fr[i + 1][1], fr[i + 1][1] + size>>, buffer |-> buf,
          free_ranges |-> fr]
    ELSE [ret |-> <<Len(buf), Len(buf) + size>>,
          buffer |-> VecResize(buf, Len(buf) + size), free_ranges |-> fr]

\* A plausible slip (best-fit): a range of exactly the requested length is
\* preferred to the first range that fits.
Flat_acquire_best_fit(buf, fr, cap, size) ==
    LET first == Flat_scan(fr, size, 0)
        exact == {k \in 0..(Len(fr) - 1) : fr[k + 1][2] - fr[k + 1][1] = size}
        i == IF exact = {} THEN first
             ELSE CHOOSE k \in exact : \A j \in exact : k <= j
    IN
    IF i < Len(fr)
    THEN LET begin == fr[i + 1][1]
             end == fr[i + 1][2]
             removed == VecRemove(fr, i)
             fr2 == IF end - begin > size /\ Len(removed) < cap
                    THEN Append(removed, <<begin + size, end>>)
                    ELSE removed
         IN [ret |-> <<begin, begin + size>>, buffer |-> buf, free_ranges |-> fr2]
    ELSE [ret |-> <<Len(buf), Len(buf) + size>>,
          buffer |-> VecResize(buf, Len(buf) + size), free_ranges |-> fr]

\* A plausible slip: the whole matched range is returned, not its prefix.
Flat_acquire_whole(buf, fr, cap, size) ==
    LET i == Flat_scan(fr, size, 0) IN
    IF i < Len(fr)
    THEN [ret |-> fr[i + 1], buffer |-> buf, free_ranges |-> VecRemove(fr, i)]
    ELSE [ret |-> <<Len(buf), Len(buf) + size>>,
          buffer |-> VecResize(buf, Len(buf) + size), free_ranges |-> fr]

\* A plausible slip: the leftover takes the place of the matched range.
Flat_acquire_leftover_in_place(buf, fr, cap, size) ==
    LET i == Flat_scan(fr, size, 0) IN
    IF i < Len(fr)
    THEN LET begin == fr[i + 1][1]
             end == fr[i + 1][2]
             fr2 == IF end - begin > size
                    THEN [fr EXCEPT ![i + 1] = <<begin + size, end>>]
                    ELSE VecRemove(fr, i)
         IN [ret |-> <<begin, begin + size>>, buffer |-> buf, free_ranges |-> fr2]
    ELSE [ret |-> <<Len(buf), Len(buf) + size>>,
          buffer |-> VecResize(buf, Len(buf) + size), free_ranges |-> fr]

\* A plausible slip: the room for the leftover is tested before the matched
\* range is taken out.
Flat_acquire_checks_before_remove(buf, fr, cap, size) ==
    LET i == Flat_scan(fr, size, 0) IN
    IF i < Len(fr)
    THEN LET begin == fr[i + 1][1]
             end == fr[i + 1][2]
             removed == VecRemove(fr, i)
             fr2 == IF end - begin > size /\ Len(fr) < cap
                    THEN Append(removed, <<begin + size, end>>)
                    ELSE removed
         IN [ret |-> <<begin, begin + size>>, buffer |-> buf, free_ranges |-> fr2]
    ELSE [ret |-> <<Len(buf), Len(buf) + size>>,
          buffer |-> VecResize(buf, Len(buf) + size), free_ranges |-> fr]

\* A plausible slip: on a miss the buffer is resized to the requested size.
Flat_acquire_resize_slip(buf, fr, cap, size) ==
    LET i == Flat_scan(fr, size, 0) IN
    IF i < Len(fr)
    THEN LET begin == fr[i + 1][1]
             end == fr[i + 1][2]
             removed == VecRemove(fr, i)
             fr2 == IF end - begin > size /\ Len(removed) < cap
                    THEN Append(removed, <<begin + size, end>>)
                    ELSE removed
         IN [ret |-> <<begin, begin + size>>, buffer |-> buf, free_ranges |-> fr2]
    ELSE [ret |-> <<Len(buf), Len(buf) + size>>,
          buffer |-> VecResize(buf, size), free_ranges |-> fr]

\* A plausible slip: the excess of a larger range is never handed back.
Flat_acquire_no_excess(buf, fr, cap, size) ==
    LET i == Flat_scan(fr, size, 0) IN
    IF i < Len(fr)
    THEN [ret |-> <<fr[i + 1][1], fr[i + 1][1] + size>>, buffer |-> buf,
          free_ranges |-> VecRemove(fr, i)]
    ELSE [ret |-> <<Len(buf), Len(buf) + size>>,
          buffer |-> VecResize(buf, Len(buf) + size), free_ranges |-> fr]

\* FlatObjectPool::acquire: the returned range and the fields afterwards.
Flat_acquire(buf, fr, cap, size) ==
    LET i == Flat_scan(fr, size, 0) IN
    IF i < Len(fr)
    THEN LET begin == fr[i + 1][1]
             end == fr[i + 1][2]
             removed == VecRemove(fr, i)
             fr2 == IF end - begin > size /\ Len(removed) < cap
                    THEN Append(removed, <<begin + size, end>>)
                    ELSE removed
         IN [ret |-> <<begin, begin + size>>, buffer |-> buf, free_ranges |-> fr2]
    ELSE [ret |-> <<Len(buf), Len(buf) + size>>,
          buffer |-> VecResize(buf, Len(buf) + size), free_ranges |-> fr]

\* A plausible slip: the range is cleared but never added to the free list.
Flat_release_drops(buf, fr, cap, begin, end) ==
    IF begin >= end \/ end > Len(buf)
    THEN [buffer |-> buf, free_ranges |-> fr]
    ELSE [buffer |-> [k \in 1..Len(buf) |->
                        IF begin < k /\ k <= end THEN Default ELSE buf[k]],
          free_ranges |-> fr]

\* A plausible slip: the capacity test is off by one.
Flat_release_off_by_one(buf, fr, cap, begin, end) ==
    IF begin >= end \/ end > Len(buf)
    THEN [buffer |-> buf, free_ranges |-> fr]
    ELSE [buffer |-> [k \in 1..Len(buf) |->
                        IF begin < k /\ k <= end THEN Default ELSE buf[k]],
          free_ranges |-> IF Len(fr) <= cap THEN Append(fr, <<begin, end>>) ELSE fr]

\* A plausible slip: the end of the range is not tested against the buffer.
Flat_release_no_bounds(buf, fr, cap, begin, end) ==
    IF begin >= end
    THEN [buffer |-> buf, free_ranges |-> fr]
    ELSE [buffer |-> [k \in 1..Len(buf) |->
                        IF begin < k /\ k <= end THEN Default ELSE buf[k]],
          free_ranges |-> IF Len(fr) < cap THEN Append(fr, <<begin, end>>) ELSE fr]

\* A plausible slip: a range already in the free list is not added again.
Flat_release_dedup(buf, fr, cap, begin, end) ==
    IF begin >= end \/ end > Len(buf)
    THEN [buffer |-> buf, free_ranges |-> fr]
    ELSE [buffer |-> [k \in 1..Len(buf) |->
                        IF begin < k /\ k <= end THEN Default ELSE buf[k]],
          free_ranges |->
              IF Len(fr) < cap /\ \A k \in 1..Len(fr) : fr[k] # <<begin, end>>
              THEN Append(fr, <<begin, end>>) ELSE fr]

\* A plausible slip: the range is cleared only when it is kept.
Flat_release_lazy_clear(buf, fr, cap, begin, end) ==
    IF begin >= end \/ end > Len(buf) \/ Len(fr) >= cap
    THEN [buffer |-> buf, free_ranges |-> fr]
    ELSE [buffer |-> [k \in 1..Len(buf) |->
                        IF begin < k /\ k <= end THEN Default ELSE buf[k]],
          free_ranges |-> Append(fr, <<begin, end>>)]

\* FlatObjectPool::release: the fields afterwards.
Flat_release(buf, fr, cap, begin, end) ==
    IF begin >= end \/ end > Len(buf)
    THEN [buffer |-> buf, free_ranges |-> fr]
    ELSE [buffer |-> [k \in 1..Len(buf) |->
                        IF begin < k /\ k <= end THEN Default ELSE buf[k]],
          free_ranges |-> IF Len(fr) < cap THEN Append(fr, <<begin, end>>) ELSE fr]

\* A plausible slip (an earlier variant of set): a write past the end of the
\* buffer is discarded.
Flat_set_discards(buf, index, value) ==
    IF index >= Len(buf) THEN buf ELSE [buf EXCEPT ![index + 1] = value]

\* A plausible slip: growing at least doubles the buffer.
Flat_set_doubles(buf, index, value) ==
    LET target == IF index + 1 >= 2 * Len(buf) THEN index + 1 ELSE 2 * Len(buf)
        grown == IF index >= Len(buf) THEN VecResize(buf, target) ELSE buf
    IN [grown EXCEPT ![index + 1] = value]

\* A plausible slip: growing rebuilds the buffer from default values.
Flat_set_reallocates(buf, index, value) ==
    LET grown == IF index >= Len(buf) THEN VecFilled(index + 1) ELSE buf
    IN [grown EXCEPT ![index + 1] = value]

\* FlatObjectPool::set: the buffer afterwards.
Flat_set(buf, index, value) ==
    LET grown == IF index >= Len(buf) THEN VecResize(buf, index + 1) ELSE buf
    IN [grown EXCEPT ![index + 1] = value]

\* FlatObjectPool::get: <<value>> for Some(&value), <<>> for None.
Flat_get(buf, index) == IF index < Len(buf) THEN <<buf[index + 1]>> ELSE <<>>

\* FlatObjectPool::get_mut followed by a write through the reference:
\* nothing to write to (None) when index is out of range.
Flat_get_mut_write(buf, index, value) ==
    IF index < Len(buf) THEN [buf EXCEPT ![index + 1] = value] ELSE buf

\* FlatObjectPool::get_slice_mut(begin, end) followed by a write to the
\* slice's element at buffer index `index`; slicing panics unless
\* begin <= end <= len.
Flat_get_slice_mut_write(buf, begin, end, index, value) ==
    [buf EXCEPT ![index + 1] = value]

available_count == Len(free_ranges)
buffer_size == Len(buffer)

\* History: a non-empty range goes on loan when acquire returns it and comes
\* back with the first release that passes it.  An empty range holds no slot
\* and release ignores it, so it is not tracked.
Lend(bag, r) == IF r[1] < r[2] THEN bag (+) SetToBag({r}) ELSE bag
Return(bag, r) == IF BagIn(r, bag) THEN bag (-) SetToBag({r}) ELSE bag

\* The fields of the other structures stay as constructed.
ArenaIdle ==
    UNCHANGED <<buffer, free_ranges, capacity, initial_size, loans, dropped,
                misused>>
PoolIdle == UNCHANGED <<available, pool_capacity, front, back>>
SeqIdle == UNCHANGED <<current_end, next_end, step, log, ks, peak>>

\* History of release(begin, end): the range joins `dropped` when it is valid
\* and the free list is full, and leaves it when a later release of the same
\* range is kept; `misused` records a release of a range not on loan.
Track(begin, end) ==
    /\ dropped' = IF begin >= end \/ end > Len(buffer) THEN dropped
                  ELSE IF Len(free_ranges) >= capacity
                       THEN dropped \cup {<<begin, end>>}
                       ELSE dropped \ {<<begin, end>>}
    /\ misused' = (misused \/ ~BagIn(<<begin, end>>, loans))

\* Runs that do not follow dropped ranges.
NoTrack == UNCHANGED <<dropped, misused>>

\* Whether a run keeps the call before the latest one.
KeepPrev(keep) == IF keep THEN prev' = last ELSE UNCHANGED prev

Acquire(size, keep) ==
    LET r == Flat_acquire(buffer, free_ranges, capacity, size) IN
    /\ buffer' = r.buffer
    /\ free_ranges' = r.free_ranges
    /\ loans' = Lend(loans, r.ret)
    /\ UNCHANGED <<dropped, misused>>
    /\ last' = [op |-> "acquire", size |-> size, ret |-> r.ret,
                preFree |-> free_ranges, preLen |-> Len(buffer)]
    /\ KeepPrev(keep)
    /\ UNCHANGED <<capacity, initial_size>>
    /\ PoolIdle /\ SeqIdle

Release(begin, end, keep) ==
    LET r == Flat_release(buffer, free_ranges, capacity, begin, end) IN
    /\ buffer' = r.buffer
    /\ free_ranges' = r.free_ranges
    /\ loans' = Return(loans, <<begin, end>>)
    /\ last' = [op |-> "release", begin |-> begin, end |-> end,
                onLoan |-> BagIn(<<begin, end>>, loans),
                dirty |-> \E k \in (begin + 1)..end :
                              k <= Len(buffer) /\ buffer[k] # Default,
                preFree |-> free_ranges, preLen |-> Len(buffer)]
    /\ KeepPrev(keep)
    /\ UNCHANGED <<capacity, initial_size>>
    /\ PoolIdle /\ SeqIdle

Set(index, value) ==
    /\ buffer' = Flat_set(buffer, index, value)
    /\ last' = [op |-> "set", index |-> index, value |-> value,
                preLen |-> Len(buffer)]
    /\ UNCHANGED prev
    /\ UNCHANGED <<free_ranges, capacity, initial_size, loans, dropped, misused>>
    /\ PoolIdle /\ SeqIdle

GetMutWrite(index, value) ==
    /\ buffer' = Flat_get_mut_write(buffer, index, value)
    /\ last' = [op |-> "get_mut", index |-> index, value |-> value]
    /\ UNCHANGED prev
    /\ UNCHANGED <<free_ranges, capacity, initial_size, loans, dropped, misused>>
    /\ PoolIdle /\ SeqIdle

GetSliceMutWrite(begin, end, index, value) ==
    /\ begin <= end /\ end <= Len(buffer)
    /\ begin <= index /\ index < end
    /\ buffer' = Flat_get_slice_mut_write(buffer, begin, end, index, value)
    /\ last' = [op |-> "get_slice_mut", index |-> index, value |-> value]
    /\ UNCHANGED prev
    /\ UNCHANGED <<free_ranges, capacity, initial_size, loans, dropped, misused>>
    /\ PoolIdle /\ SeqIdle

\* ------------------------------------------------ disciplined arena runs

InitOther ==
    /\ available = <<>> /\ pool_capacity = 0
    /\ front = <<>> /\ back = <<>>
    /\ current_end = 0 /\ next_end = 0 /\ step = 0
    /\ log = <<>> /\ ks = <<>> /\ peak = 0

InitLoan ==
    /\ \E n \in 0..LoanMaxInit, c \in 0..LoanMaxCap :
         /\ buffer = Flat_new(n, c).buffer
         /\ free_ranges = Flat_new(n, c).free_ranges
         /\ capacity = Flat_new(n, c).capacity
         /\ initial_size = n
    /\ loans = EmptyBag /\ dropped = {} /\ misused = FALSE
    /\ last = [op |-> "new"]
    /\ prev = [op |-> "none"]
    /\ InitOther

LoanAcquire ==
    \E size \in 0..LoanMaxSize :
        /\ Len(buffer) + size <= LoanMaxBuf
        /\ Acquire(size, TRUE)

\* The caller gives back a range it holds, exactly as acquire returned it.
LoanRelease ==
    \E r \in BagToSet(loans) : Release(r[1], r[2], TRUE) /\ NoTrack

NextLoan == LoanAcquire \/ LoanRelease

SpecLoan == InitLoan /\ [][NextLoan]_vars

\* ----------------------------------------------- unrestricted arena runs

InitArena ==
    /\ \E n \in 0..ArenaMaxInit, c \in 0..ArenaMaxCap :
         /\ buffer = Flat_new(n, c).buffer
         /\ free_ranges = Flat_new(n, c).free_ranges
         /\ capacity = Flat_new(n, c).capacity
         /\ initial_size = n
    /\ loans = EmptyBag /\ dropped = {} /\ misused = FALSE
    /\ last = [op |-> "new"]
    /\ prev = [op |-> "none"]
    /\ InitOther

\* The caller holds at most ArenaMaxLoans non-empty ranges at a time.
ArenaAcquire ==
    \E size \in 0..ArenaMaxBuf :
        /\ Len(buffer) + size <= ArenaMaxBuf
        /\ BagCardinality(loans) < ArenaMaxLoans
        /\ Acquire(size, FALSE)

\* Any pair of indices, valid or not, on loan or not.
ArenaRelease ==
    \E begin, end \in 0..(ArenaMaxBuf + 1) :
        Release(begin, end, FALSE) /\ NoTrack

ArenaSet ==
    \E index \in 0..(ArenaMaxBuf - 1), value \in ArenaValues : Set(index, value)

ArenaGetMut ==
    \E index \in 0..ArenaMaxBuf, value \in ArenaValues :
        GetMutWrite(index, value)

ArenaGetSliceMut ==
    \E begin, end, index \in 0..ArenaMaxBuf, value \in ArenaValues :
        GetSliceMutWrite(begin, end, index, value)

NextArena ==
    \/ ArenaAcquire
    \/ ArenaRelease
    \/ ArenaSet
    \/ ArenaGetMut
    \/ ArenaGetSliceMut

SpecArena == InitArena /\ [][NextArena]_vars

\* ------------------------------------- a fresh pool, new(10, 3) of the spec

\* Longest buffer of a run that starts from new(10, 3).
FreshMaxBuf == 22
FreshSizes == {2, 4, 6}

InitFresh ==
    /\ buffer = Flat_new(10, 3).buffer
    /\ free_ranges = Flat_new(10, 3).free_ranges
    /\ capacity = Flat_new(10, 3).capacity
    /\ initial_size = 10
    /\ loans = EmptyBag /\ dropped = {} /\ misused = FALSE
    /\ last = [op |-> "new"]
    /\ prev = [op |-> "none"]
    /\ InitOther

FreshAcquire ==
    \E size \in FreshSizes :
        /\ Len(buffer) + size <= FreshMaxBuf
        /\ Acquire(size, TRUE)

FreshRelease ==
    \E r \in BagToSet(loans) : Release(r[1], r[2], TRUE) /\ NoTrack

NextFresh == FreshAcquire \/ FreshRelease

SpecFresh == InitFresh /\ [][NextFresh]_vars

\* ------------------------------- disciplined arena runs that write slots

InitWrite == InitArena

WriteAcquire ==
    \E size \in 0..WriteMaxBuf :
        /\ Len(buffer) + size <= WriteMaxBuf
        /\ Acquire(size, FALSE)

\* The caller gives back a range it holds, exactly as acquire returned it.
WriteRelease ==
    \E r \in BagToSet(loans) : Release(r[1], r[2], FALSE) /\ NoTrack

\* A write to any slot, past the end of the buffer included.
WriteSet ==
    \E index \in 0..(WriteMaxBuf - 1), value \in ArenaValues : Set(index, value)

NextWrite == WriteAcquire \/ WriteRelease \/ WriteSet

SpecWrite == InitWrite /\ [][NextWrite]_vars

\* ------------------------- arena runs that follow the ranges release drops

InitDrop == InitArena

\* An acquire that keeps the buffer within DropMaxBuf slots, by a caller
\* that holds at most ArenaMaxLoans non-empty ranges at a time.
DropAcquire ==
    \E size \in 0..DropMaxBuf :
        /\ Len(Flat_acquire(buffer, free_ranges, capacity, size).buffer)
               <= DropMaxBuf
        /\ BagCardinality(loans) < ArenaMaxLoans
        /\ Acquire(size, FALSE)

\* The caller gives back a range it holds, exactly as acquire returned it.
DropRelease ==
    \E r \in BagToSet(loans) : Release(r[1], r[2], FALSE) /\ Track(r[1], r[2])

\* Misuse: the caller releases once more a range it no longer holds, one
\* that is in the free list or one that was dropped.
DropReleaseAgain ==
    \E r \in {free_ranges[k] : k \in 1..Len(free_ranges)} \cup dropped :
        /\ ~BagIn(r, loans)
        /\ Release(r[1], r[2], FALSE) /\ Track(r[1], r[2])

\* A write to a slot of a range on loan.
DropSet ==
    \E r \in BagToSet(loans), value \in ArenaValues :
        \E index \in r[1]..(r[2] - 1) : Set(index, value)

NextDrop == DropAcquire \/ DropRelease \/ DropReleaseAgain \/ DropSet

SpecDrop == InitDrop /\ [][NextDrop]_vars

\* ------------------------------------- disciplined runs, slots accounted

InitTidy == InitArena

\* Every acquire asks for at least one slot.
TidyAcquire ==
    \E size \in 1..WriteMaxBuf :
        /\ Len(Flat_acquire(buffer, free_ranges, capacity, size).buffer)
               <= WriteMaxBuf
        /\ Acquire(size, FALSE)

\* The caller gives back a range it holds, exactly as acquire returned it.
TidyRelease ==
    \E r \in BagToSet(loans) : Release(r[1], r[2], FALSE) /\ Track(r[1], r[2])

\* A write to a slot of a range on loan.
TidySet ==
    \E r \in BagToSet(loans), value \in ArenaValues :
        \E index \in r[1]..(r[2] - 1) : Set(index, value)

NextTidy == TidyAcquire \/ TidyRelease \/ TidySet

SpecTidy == InitTidy /\ [][NextTidy]_vars

\* ------------------------------------------ runs with a repeated release

InitDouble ==
    /\ \E c \in 0..DoubleMaxCap :
         /\ buffer = Flat_new(0, c).buffer
         /\ free_ranges = Flat_new(0, c).free_ranges
         /\ capacity = Flat_new(0, c).capacity
         /\ initial_size = 0
    /\ loans = EmptyBag /\ dropped = {} /\ misused = FALSE
    /\ last = [op |-> "new"]
    /\ prev = [op |-> "none"]
    /\ InitOther

DoubleAcquire ==
    \E size \in 1..DoubleMaxBuf :
        /\ Len(Flat_acquire(buffer, free_ranges, capacity, size).buffer)
               <= DoubleMaxBuf
        /\ Acquire(size, TRUE)

\* The caller gives back a range it holds, exactly as acquire returned it.
DoubleRelease ==
    \E r \in BagToSet(loans) : Release(r[1], r[2], TRUE) /\ NoTrack

\* Misuse, once in a run: the range just released is released once more.
DoubleReleaseAgain ==
    /\ ~misused
    /\ last.op = "release"
    /\ Release(last.begin, last.end, TRUE)
    /\ misused' = TRUE
    /\ UNCHANGED dropped

NextDouble == DoubleAcquire \/ DoubleRelease \/ DoubleReleaseAgain

SpecDouble == InitDouble /\ [][NextDouble]_vars

\* -------------------------------------------------------------- ObjectPool

\* Vec::clear
VecClear(v) == SubSeq(v, 1, 0)

\* All vectors of at most n elements.
Vecs(n) == UNION {[1..k -> Values] : k \in 0..n}

\* The state ObjectPool::new builds.
Pool_new(cap) == [available |-> <<>>, capacity |-> cap]

\* ObjectPool::acquire: available.pop().unwrap_or_default().
Pool_acquire(av) ==
    IF Len(av) > 0
    THEN [ret |-> av[Len(av)], available |-> SubSeq(av, 1, Len(av) - 1)]
    ELSE [ret |-> <<>>, available |-> av]

\* A plausible slip: the capacity is not checked.
Pool_release_unbounded(av, cap, vec) == Append(av, VecClear(vec))

\* A plausible slip: the vector is stored as it is.
Pool_release_no_clear(av, cap, vec) ==
    IF Len(av) < cap THEN Append(av, vec) ELSE av

\* A plausible slip: the capacity test is off by one.
Pool_release_off_by_one(av, cap, vec) ==
    IF Len(av) <= cap THEN Append(av, VecClear(vec)) ELSE av

\* ObjectPool::release: the available list afterwards.
Pool_release(av, cap, vec) ==
    IF Len(av) < cap THEN Append(av, VecClear(vec)) ELSE av

Pool_available_count == Len(available)

PoolAcquire ==
    LET r == Pool_acquire(available) IN
    /\ available' = r.available
    /\ last' = [op |-> "pool_acquire", ret |-> r.ret, preCount |-> Len(available)]
    /\ prev' = last
    /\ UNCHANGED <<pool_capacity, front, back>>
    /\ ArenaIdle /\ SeqIdle

PoolRelease ==
    \E vec \in Vecs(PoolMaxLen) :
        /\ available' = Pool_release(available, pool_capacity, vec)
        /\ last' = [op |-> "pool_release", vec |-> vec, preCount |-> Len(available)]
        /\ prev' = last
        /\ UNCHANGED <<pool_capacity, front, back>>
        /\ ArenaIdle /\ SeqIdle

InitPool ==
    /\ \E c \in 0..PoolMaxCap :
         /\ available = Pool_new(c).available
         /\ pool_capacity = Pool_new(c).capacity
    /\ front = <<>> /\ back = <<>>
    /\ buffer = <<>> /\ free_ranges = <<>> /\ capacity = 0
    /\ initial_size = 0 /\ loans = EmptyBag /\ dropped = {} /\ misused = FALSE
    /\ current_end = 0 /\ next_end = 0 /\ step = 0
    /\ log = <<>> /\ ks = <<>> /\ peak = 0
    /\ last = [op |-> "new"]
    /\ prev = [op |-> "none"]

NextPool == PoolAcquire \/ PoolRelease

SpecPool == InitPool /\ [][NextPool]_vars

\* ------------------------------------------------------------ DoubleBuffer

\* A plausible slip: the new back is a fresh vector, not one from the pool.
DB_swap_fresh_back(f, b, av, cap) ==
    [front |-> b, back |-> <<>>, available |-> Pool_release(av, cap, f)]

\* DoubleBuffer::swap: the fields afterwards.
DB_swap(f, b, av, cap) ==
    LET front1 == b                \* mem::swap(front, back)
        old_back == f              \* mem::take(back)
        av1 == Pool_release(av, cap, old_back)
        acq == Pool_acquire(av1)
    IN [front |-> front1, back |-> acq.ret, available |-> acq.available]

\* A plausible slip: only the front is recycled.
DB_clear_front_only(f, b, av, cap) ==
    LET av1 == Pool_release(av, cap, f)
        acq1 == Pool_acquire(av1)
    IN [front |-> acq1.ret, back |-> b, available |-> acq1.available]

\* DoubleBuffer::clear: the fields afterwards.
DB_clear(f, b, av, cap) ==
    LET av1 == Pool_release(av, cap, f)
        av2 == Pool_release(av1, cap, b)
        acq1 == Pool_acquire(av2)
        acq2 == Pool_acquire(acq1.available)
    IN [front |-> acq1.ret, back |-> acq2.ret, available |-> acq2.available]

\* A plausible slip: back_mut hands out the front vector.
DB_back_mut_push_front(f, b, value) ==
    [front |-> IF Len(f) < Len(b) + 1 THEN Append(f, value) ELSE f, back |-> b]

\* DoubleBuffer::back_mut followed by push(value) on the vector it returns.
DB_back_mut_push(f, b, value) == [front |-> f, back |-> Append(b, value)]

\* back_mut().push(value)
BackPush ==
    \E value \in Values :
        LET r == DB_back_mut_push(front, back, value) IN
        /\ Len(back) < PoolMaxLen
        /\ front' = r.front
        /\ back' = r.back
        /\ last' = [op |-> "push", value |-> value, preFront |-> front]
        /\ UNCHANGED <<available, pool_capacity, prev>>
        /\ ArenaIdle /\ SeqIdle

Swap ==
    LET r == DB_swap(front, back, available, pool_capacity) IN
    /\ front' = r.front
    /\ back' = r.back
    /\ available' = r.available
    /\ last' = [op |-> "swap", preFront |-> front, preBack |-> back]
    /\ UNCHANGED <<pool_capacity, prev>>
    /\ ArenaIdle /\ SeqIdle

SwapClear ==
    LET r == DB_clear(front, back, available, pool_capacity) IN
    /\ front' = r.front
    /\ back' = r.back
    /\ available' = r.available
    /\ last' = [op |-> "clear", preFront |-> front, preBack |-> back]
    /\ UNCHANGED <<pool_capacity, prev>>
    /\ ArenaIdle /\ SeqIdle

\* DoubleBuffer::new
InitSwap == InitPool

NextSwap == BackPush \/ Swap \/ SwapClear

SpecSwap == InitSwap /\ [][NextSwap]_vars

\* ------------------------------------------------------- DataPointSequence

RECURSIVE SumSeq(_)
SumSeq(s) == IF s = <<>> THEN 0 ELSE s[1] + SumSeq(Tail(s))

\* A plausible slip: next_end is not advanced.
Seq_add_point_stuck(buf, ne, point) ==
    [buffer |-> Flat_set(buf, ne, point), next_end |-> ne]

\* A plausible slip: next_end is advanced before the write.
Seq_add_point_skips(buf, ne, point) ==
    [buffer |-> Flat_set(buf, ne + 1, point), next_end |-> ne + 1]

\* DataPointSequence::add_point: the buffer and next_end afterwards.
Seq_add_point(buf, ne, point) ==
    [buffer |-> Flat_set(buf, ne, point), next_end |-> ne + 1]

\* DataPointSequence::add_points: add_point for each point, in order.
RECURSIVE Seq_add_points(_, _, _)
Seq_add_points(buf, ne, points) ==
    IF points = <<>> THEN [buffer |-> buf, next_end |-> ne]
    ELSE LET r == Seq_add_point(buf, ne, Head(points))
         IN Seq_add_points(r.buffer, r.next_end, Tail(points))

\* A plausible slip: the step advances only when something was added.
Seq_update_lazy(ce, ne, st) ==
    [current_end |-> ne, step |-> IF ne > ce THEN st + 1 ELSE st]

\* DataPointSequence::update: current_end and step afterwards.
Seq_update(ce, ne, st) == [current_end |-> ne, step |-> st + 1]

\* The loop of clear: set(i, DataPoint::default()) for i in from..end.
RECURSIVE Seq_clear_loop(_, _, _)
Seq_clear_loop(buf, from, end) ==
    IF from >= end THEN buf
    ELSE Seq_clear_loop(Flat_set(buf, from, Default), from + 1, end)

\* A plausible slip: clear gives the buffer up instead of overwriting it.
Seq_clear_truncates(buf, ne) ==
    [buffer |-> <<>>, current_end |-> 0, next_end |-> 0, step |-> 0]

\* A plausible slip: the positions are reset and the slots are left as they
\* are, to be overwritten by later adds.
Seq_clear_lazy(buf, ne) ==
    [buffer |-> buf, current_end |-> 0, next_end |-> 0, step |-> 0]

\* A plausible slip: the pending end is not reset.
Seq_clear_keeps_next(buf, ne) ==
    [buffer |-> Seq_clear_loop(buf, 0, ne), current_end |-> 0, next_end |-> ne,
     step |-> 0]

\* DataPointSequence::clear: the fields afterwards.
Seq_clear(buf, ne) ==
    [buffer |-> Seq_clear_loop(buf, 0, ne), current_end |-> 0, next_end |-> 0,
     step |-> 0]

\* DataPointSequence::current, len, pending_count
Seq_current == IF current_end > 0 THEN SubSeq(buffer, 1, current_end) ELSE <<>>
Seq_len == current_end
Seq_is_empty == current_end = 0
Seq_pending_count == next_end - current_end

\* History: the number of values added since the latest update (or new/clear).
AddedSinceUpdate == Len(log) - SumSeq(ks)

AddPoint ==
    \E point \in Values :
        LET r == Seq_add_point(buffer, next_end, point) IN
        /\ Len(log) < SeqMaxLen
        /\ buffer' = r.buffer
        /\ next_end' = r.next_end
        /\ log' = Append(log, point)
        /\ last' = [op |-> "add_point", value |-> point,
                    preCurrent |-> Seq_current, preStep |-> step,
                    prePending |-> Seq_pending_count]
        /\ peak' = Max(peak, r.next_end)
        /\ UNCHANGED <<current_end, step, ks>>
        /\ UNCHANGED <<free_ranges, capacity, initial_size, loans, dropped, misused,
                     prev>>
        /\ PoolIdle

AddPoints ==
    \E points \in Vecs(2) :
        LET r == Seq_add_points(buffer, next_end, points) IN
        /\ Len(log) + Len(points) <= SeqMaxLen
        /\ buffer' = r.buffer
        /\ next_end' = r.next_end
        /\ log' = log \o points
        /\ last' = [op |-> "add_points", preCurrent |-> Seq_current,
                    preStep |-> step]
        /\ peak' = Max(peak, r.next_end)
        /\ UNCHANGED <<current_end, step, ks>>
        /\ UNCHANGED <<free_ranges, capacity, initial_size, loans, dropped, misused,
                     prev>>
        /\ PoolIdle

Update ==
    LET r == Seq_update(current_end, next_end, step) IN
    /\ step < SeqMaxStep
    /\ current_end' = r.current_end
    /\ step' = r.step
    /\ ks' = Append(ks, AddedSinceUpdate)
    /\ last' = [op |-> "update", k |-> AddedSinceUpdate,
                preCurrent |-> Seq_current, preStep |-> step]
    /\ UNCHANGED <<buffer, next_end, log, peak>>
    /\ UNCHANGED <<free_ranges, capacity, initial_size, loans, dropped, misused,
                     prev>>
    /\ PoolIdle

SeqClear ==
    LET r == Seq_clear(buffer, next_end) IN
    /\ buffer' = r.buffer
    /\ current_end' = r.current_end
    /\ next_end' = r.next_end
    /\ step' = r.step
    /\ log' = <<>>
    /\ ks' = <<>>
    /\ UNCHANGED peak
    /\ last' = [op |-> "seq_clear", preLen |-> Len(buffer),
                preCurrentEnd |-> current_end, preNextEnd |-> next_end,
                preStep |-> step,
                stale |-> \E k \in (current_end + 1)..next_end :
                              buffer[k] # Default]
    /\ UNCHANGED <<free_ranges, capacity, initial_size, loans, dropped, misused,
                     prev>>
    /\ PoolIdle

\* DataPointSequence::new(buffer_size, pool_capacity)
InitSeq ==
    /\ \E n \in 0..SeqMaxInit, c \in 0..1 :
         /\ buffer = Flat_new(n, c).buffer
         /\ free_ranges = Flat_new(n, c).free_ranges
         /\ capacity = Flat_new(n, c).capacity
         /\ initial_size = n
    /\ current_end = 0 /\ next_end = 0 /\ step = 0
    /\ log = <<>> /\ ks = <<>> /\ peak = 0
    /\ loans = EmptyBag /\ dropped = {} /\ misused = FALSE
    /\ available = <<>> /\ pool_capacity = 0
    /\ front = <<>> /\ back = <<>>
    /\ last = [op |-> "new"]
    /\ prev = [op |-> "none"]

NextSeq == AddPoint \/ AddPoints \/ Update \/ SeqClear

SpecSeq == InitSeq /\ [][NextSeq]_vars

\* ------------------------------------------------------------------ claims

RangeLen(r) == r[2] - r[1]
Overlap(r1, r2) == r1[1] < r2[2] /\ r2[1] < r1[2]

\* C1 (SpecLoan): when every release passes a range on loan exactly as
\* acquire returned it, no range is on loan twice and no two ranges on loan
\* share an index.
C1_Disjoint ==
    \A r1, r2 \in BagToSet(loans) :
        /\ CopiesIn(r1, loans) = 1
        /\ r1 # r2 => ~Overlap(r1, r2)

\* Three ranges are on loan and the latest acquire was served from the free
\* list by splitting a released range.
C1_Witness ==
    /\ Cardinality(BagToSet(loans)) >= 3
    /\ last.op = "acquire"
    /\ last.size > 0
    /\ last.ret[1] < last.preLen
    /\ Len(free_ranges) = Len(last.preFree)

\* The latest two calls were release(b,e) of a range on loan followed by
\* acquire(e-b).
ReleaseThenAcquireSame ==
    /\ last.op = "acquire"
    /\ prev.op = "release"
    /\ prev.onLoan
    /\ last.size = prev.end - prev.begin

\* C2 as stated (SpecLoan): in any reachable state, release(b,e) of a range
\* on loan followed at once by acquire(e-b) returns exactly (b,e).
C2_ReuseExact_Original ==
    ReleaseThenAcquireSame => last.ret = <<prev.begin, prev.end>>

\* C2 amended (SpecLoan): if, when release(b,e) is called on a range on loan
\* of length s >= 1, the free list holds fewer than capacity entries and none
\* of them has length >= s, then the acquire(s) that follows at once returns
\* exactly (b,e).
C2_ReuseExact ==
    ( /\ ReleaseThenAcquireSame
      /\ last.size >= 1
      /\ Len(prev.preFree) < capacity
      /\ \A k \in 1..Len(prev.preFree) : RangeLen(prev.preFree[k]) < last.size )
    => last.ret = <<prev.begin, prev.end>>

\* The released range came back although a shorter range was already free.
C2_Witness ==
    /\ ReleaseThenAcquireSame
    /\ last.size >= 2
    /\ Len(prev.preFree) >= 1
    /\ Len(prev.preFree) < capacity
    /\ \A k \in 1..Len(prev.preFree) : RangeLen(prev.preFree[k]) < last.size
    /\ last.ret = <<prev.begin, prev.end>>

\* C3 as stated (SpecFresh): on a pool built by new(10, 3) the first
\* acquire(4) returns (0,4) and the first acquire(6) returns (0,6); and
\* acquire(4) right after release(0,4) returns (0,4).
C3_FreshServesInitial ==
    /\ (prev.op = "new" /\ last.op = "acquire" /\ last.size \in {4, 6})
           => last.ret = <<0, last.size>>
    /\ (prev.op = "release" /\ prev.begin = 0 /\ prev.end = 4
           /\ last.op = "acquire" /\ last.size = 4)
           => last.ret = <<0, 4>>

\* The latest call was acquire(s) on a free list holding one range, longer
\* than s.
SplitOfOnly(rec) ==
    /\ rec.op = "acquire"
    /\ Len(rec.preFree) = 1
    /\ 0 < rec.size
    /\ rec.size < RangeLen(rec.preFree[1])

\* C4 (SpecLoan): with capacity >= 1 and (b,e) of length L the only free
\* range, acquire(s) for 0 < s < L returns (b,b+s) and leaves exactly
\* (b+s,e) in the free list; an acquire(L-s) that follows returns (b+s,e)
\* and the buffer does not grow.
C4_Split ==
    /\ (capacity >= 1 /\ SplitOfOnly(last)) =>
          /\ last.ret = <<last.preFree[1][1], last.preFree[1][1] + last.size>>
          /\ free_ranges = << <<last.preFree[1][1] + last.size, last.preFree[1][2]>> >>
    /\ (capacity >= 1 /\ SplitOfOnly(prev) /\ last.op = "acquire"
          /\ last.size = RangeLen(prev.preFree[1]) - prev.size) =>
          /\ last.ret = <<prev.preFree[1][1] + prev.size, prev.preFree[1][2]>>
          /\ Len(buffer) = last.preLen

\* A split of the only free range was followed by an acquire of the rest.
C4_Witness ==
    /\ capacity >= 1
    /\ SplitOfOnly(prev)
    /\ last.op = "acquire"
    /\ last.size = RangeLen(prev.preFree[1]) - prev.size
    /\ last.ret = <<prev.preFree[1][1] + prev.size, prev.preFree[1][2]>>
    /\ free_ranges = <<>>

\* The call recorded in rec wrote slot i.
WritesSlot(rec, i) ==
    /\ rec.op \in {"set", "get_mut", "get_slice_mut"}
    /\ rec.index = i

\* The call recorded in rec was a release of a valid range.
ValidRelease(rec) ==
    /\ rec.op = "release"
    /\ rec.begin < rec.end
    /\ rec.end <= rec.preLen

\* C5 (SpecArena): a release(b,e) with b < e <= buffer_size() leaves every
\* slot of [b,e) at the default value, kept in the free list or not; and a
\* slot that reads as the default keeps doing so in every step other than a
\* set / get_mut / get_slice_mut write to that slot.
C5_ClearOnRelease ==
    [][ /\ ValidRelease(last') =>
              \A i \in last'.begin..(last'.end - 1) : buffer'[i + 1] = Default
        /\ \A i \in 0..(Len(buffer) - 1) :
              (buffer[i + 1] = Default /\ ~WritesSlot(last', i))
                  => buffer'[i + 1] = Default ]_vars

\* A range holding a written value was released while the free list was
\* full, so the range was dropped, and its slots read as the default.
C5_Witness ==
    /\ ValidRelease(last)
    /\ last.dirty
    /\ capacity >= 1
    /\ Len(last.preFree) = capacity
    /\ \A i \in last.begin..(last.end - 1) : buffer[i + 1] = Default

\* C6 (SpecArena): whatever acquire, release and set calls are made,
\* releases of ranges never acquired included, available_count() never
\* exceeds the capacity given at construction.
C6_FreeListBound == available_count <= capacity

\* A valid range that is not on loan was released onto a full free list.
C6_Witness ==
    /\ ValidRelease(last)
    /\ ~last.onLoan
    /\ capacity >= 1
    /\ Len(last.preFree) = capacity
    /\ available_count = capacity

\* C7 (SpecPool): available_count() never exceeds the capacity; a release
\* at capacity leaves available_count() unchanged and a release below
\* capacity raises it by exactly one.
C7_PoolBound ==
    /\ Pool_available_count <= pool_capacity
    /\ last.op = "pool_release" =>
          Pool_available_count =
              IF last.preCount = pool_capacity THEN last.preCount
              ELSE last.preCount + 1

\* A non-empty vector was released to a pool that was already full.
C7_Witness ==
    /\ last.op = "pool_release"
    /\ Len(last.vec) >= 1
    /\ pool_capacity >= 2
    /\ last.preCount = pool_capacity
    /\ Pool_available_count = pool_capacity

\* C8 (SpecSeq): with k_i values added before the i-th update since new or
\* clear, after N updates len() is k_1 + ... + k_N, current() lists those
\* values in the order they were added, and the first len() - k_N elements
\* of current() are current() as it was just before the N-th update.
C8_Accumulates ==
    /\ Seq_len = SumSeq(ks)
    /\ Seq_current = SubSeq(log, 1, SumSeq(ks))
    /\ last.op = "update" =>
          SubSeq(Seq_current, 1, Seq_len - last.k) = last.preCurrent

\* A second or later update published a new batch on top of values that
\* were already visible; everything added is now visible, in order.
C8_Witness ==
    /\ last.op = "update"
    /\ Len(ks) >= 2
    /\ last.k >= 1
    /\ Len(last.preCurrent) >= 1
    /\ Seq_len = Len(last.preCurrent) + last.k
    /\ Seq_current = log
    /\ Seq_current[1] # Seq_current[Seq_len]

\* C9 (SpecSeq): step() is the number of updates since new or the latest
\* clear; an update raises step by exactly one, and with nothing pending it
\* leaves len() and current() as they were; add_point and add_points leave
\* step as it was.
C9_StepCounts ==
    /\ step = Len(ks)
    /\ last.op = "update" =>
          /\ step = last.preStep + 1
          /\ last.k = 0 =>
                /\ Seq_len = Len(last.preCurrent)
                /\ Seq_current = last.preCurrent
    /\ last.op \in {"add_point", "add_points"} => step = last.preStep

\* An update with nothing pending came after an update that had published
\* something.
C9_Witness ==
    /\ last.op = "update"
    /\ last.k = 0
    /\ last.preStep >= 1
    /\ step = last.preStep + 1
    /\ Seq_len >= 1

\* C10 (SpecSwap): for every pool capacity, 0 included, swap() makes front()
\* exactly what back held just before the call, in append order, and
\* leaves back with length 0.
C10_SwapPublishes ==
    last.op = "swap" =>
        /\ front = last.preBack
        /\ Len(back) = 0

\* A swap published two values over a non-empty front, with a pool that
\* retains vectors.
C10_Witness ==
    /\ last.op = "swap"
    /\ pool_capacity >= 1
    /\ Len(last.preBack) = 2
    /\ Len(last.preFront) >= 1
    /\ last.preFront # last.preBack
    /\ front = last.preBack

\* C11 (SpecSeq): after clear(), len() is 0, is_empty() is true, step() is
\* 0, pending_count() is 0, current() is empty, and buffer_size() equals the
\* buffer_size() just before the call.
C11_Reset ==
    last.op = "seq_clear" =>
        /\ Seq_len = 0
        /\ Seq_is_empty
        /\ step = 0
        /\ Seq_pending_count = 0
        /\ Seq_current = <<>>
        /\ buffer_size >= last.preLen
        /\ buffer_size = last.preLen

\* clear() was called with values visible, a value pending and a buffer that
\* had grown past its initial size.
C11_Witness ==
    /\ last.op = "seq_clear"
    /\ last.preCurrentEnd >= 1
    /\ last.preNextEnd > last.preCurrentEnd
    /\ last.preStep >= 2
    /\ last.preLen > initial_size
    /\ buffer_size = last.preLen

\* C12 (SpecSeq): for every initial buffer size, 0 included, and every
\* sequence of add_point, add_points, update and clear,
\* current_end <= next_end <= buffer_size().
C12_Boundaries ==
    /\ current_end <= next_end
    /\ next_end <= buffer_size

\* A sequence built on an empty buffer holds visible and pending values and
\* fills its buffer exactly.
C12_Witness ==
    /\ initial_size = 0
    /\ 1 <= current_end
    /\ current_end < next_end
    /\ next_end = buffer_size

\* C13 (SpecSeq): add_point leaves current(), len(), is_empty() and step()
\* as they were and raises pending_count() by exactly one; after an update
\* pending_count() is 0 and every value added is visible in current().
C13_Staging ==
    /\ last.op = "add_point" =>
          /\ Seq_current = last.preCurrent
          /\ Seq_len = Len(last.preCurrent)
          /\ Seq_is_empty = (last.preCurrent = <<>>)
          /\ step = last.preStep
          /\ Seq_pending_count = last.prePending + 1
    /\ last.op = "update" =>
          /\ Seq_pending_count = 0
          /\ Seq_current = log

\* A value was added on top of visible and pending values and is not visible.
C13_Witness ==
    /\ last.op = "add_point"
    /\ last.value # Default
    /\ last.prePending >= 1
    /\ Len(last.preCurrent) >= 1
    /\ Seq_pending_count = last.prePending + 1
    /\ Seq_current = last.preCurrent
    /\ \A k \in 1..Len(Seq_current) : Seq_current[k] # last.value

\* C14 (SpecArena): a release(begin, end) with begin >= end or
\* end > buffer_size() is a no-op: the buffer's contents and length and the
\* free list are left as they were.
C14_InvalidReleaseNoOp ==
    [][ (last'.op = "release"
           /\ (last'.begin >= last'.end \/ last'.end > buffer_size))
        => UNCHANGED <<buffer, free_ranges>> ]_vars

\* A range that starts at a written slot and ends past the buffer was
\* released while the free list had room: the slot and the list are as before.
C14_Witness ==
    /\ last.op = "release"
    /\ last.begin < last.end
    /\ last.end > last.preLen
    /\ last.begin < buffer_size
    /\ buffer[last.begin + 1] # Default
    /\ Len(free_ranges) < capacity
    /\ free_ranges = last.preFree

\* C15 (SpecPool): acquire() returns a vector of length 0 whatever was
\* released before; it lowers available_count() by one when that was
\* positive and leaves it at 0 otherwise.
C15_AcquireEmpty ==
    last.op = "pool_acquire" =>
        /\ Len(last.ret) = 0
        /\ Pool_available_count =
              IF last.preCount > 0 THEN last.preCount - 1 ELSE 0

\* A vector of two elements was stored by release and handed out again.
C15_Witness ==
    /\ last.op = "pool_acquire"
    /\ prev.op = "pool_release"
    /\ Len(prev.vec) = 2
    /\ prev.preCount < pool_capacity
    /\ last.preCount = prev.preCount + 1
    /\ Len(last.ret) = 0

\* C16 (SpecPool): a pool built with capacity 0 never retains a vector:
\* available_count() is 0 in every state and every acquire finds the pool
\* empty and returns a fresh empty vector.
C16_ZeroCapacity ==
    pool_capacity = 0 =>
        /\ Pool_available_count = 0
        /\ last.op = "pool_acquire" => (last.preCount = 0 /\ last.ret = <<>>)

\* With capacity 0, a non-empty vector was released and acquire came next.
C16_Witness ==
    /\ pool_capacity = 0
    /\ last.op = "pool_acquire"
    /\ prev.op = "pool_release"
    /\ Len(prev.vec) >= 1
    /\ last.ret = <<>>

\* C17 (SpecSwap): for every pool capacity, 0 and 1 included, after clear()
\* front() and back both have length 0.
C17_ClearEmpties ==
    last.op = "clear" => (Len(front) = 0 /\ Len(back) = 0)

\* clear() was called with both vectors non-empty on a pool that can retain
\* only one of them.
C17_Witness ==
    /\ last.op = "clear"
    /\ pool_capacity = 1
    /\ Len(last.preFront) >= 1
    /\ Len(last.preBack) >= 1
    /\ Len(front) = 0

\* C18 (SpecSwap): a push onto back leaves front() as it was, and front()
\* changes only in a swap() or a clear().
C18_FrontStable ==
    [][ /\ last'.op = "push" => front' = front
        /\ front' # front => last'.op \in {"swap", "clear"} ]_vars

\* A value was pushed onto back while front held published values.
C18_Witness ==
    /\ last.op = "push"
    /\ Len(front) >= 1
    /\ Len(back) = 2
    /\ front # back
    /\ front = last.preFront

\* C19 (SpecWrite): set(index, value) with index >= buffer_size() makes
\* buffer_size() index + 1 and fills the new slots below index with the
\* default; with index < buffer_size() the length stays.  Either way slot
\* index holds value, get(index) returns it, and the free list and every
\* other slot that existed are unchanged.
C19_SetGrows ==
    [][ last'.op = "set" =>
          LET i == last'.index
              n == Len(buffer)
          IN /\ Len(buffer') = IF i >= n THEN i + 1 ELSE n
             /\ \A k \in 0..(Len(buffer') - 1) :
                   buffer'[k + 1] = IF k = i THEN last'.value
                                    ELSE IF k < n THEN buffer[k + 1]
                                    ELSE Default
             /\ Flat_get(buffer', i) = <<last'.value>>
             /\ free_ranges' = free_ranges ]_vars

\* A write past the end of a buffer that holds a written slot and has a
\* free range: the old slot is kept and the gap reads as the default.
C19_Witness ==
    /\ last.op = "set"
    /\ last.preLen >= 1
    /\ last.index > last.preLen
    /\ last.value # Default
    /\ buffer_size = last.index + 1
    /\ buffer[1] # Default
    /\ Flat_get(buffer, last.index - 1) = <<Default>>
    /\ Flat_get(buffer, last.index) = <<last.value>>
    /\ Len(free_ranges) >= 1

\* C20 (SpecWrite): when no range of the free list is as long as size,
\* acquire(size) returns (n, n + size) for n the buffer_size() before the
\* call, buffer_size() becomes n + size, the new slots hold the default, and
\* the free list and the slots that existed are unchanged.
C20_GrowthOnMiss ==
    [][ (last'.op = "acquire"
           /\ \A k \in 1..Len(free_ranges) :
                 RangeLen(free_ranges[k]) < last'.size)
        => LET n == Len(buffer) IN
           /\ last'.ret = <<n, n + last'.size>>
           /\ Len(buffer') = n + last'.size
           /\ \A k \in 1..Len(buffer') :
                 buffer'[k] = IF k <= n THEN buffer[k] ELSE Default
           /\ free_ranges' = free_ranges ]_vars

\* The free list held a range, too short for the request, and the buffer
\* held a written slot: the buffer grew and both are as before.
C20_Witness ==
    /\ last.op = "acquire"
    /\ last.size >= 2
    /\ Len(last.preFree) >= 1
    /\ \A k \in 1..Len(last.preFree) : RangeLen(last.preFree[k]) < last.size
    /\ last.ret = <<last.preLen, last.preLen + last.size>>
    /\ buffer_size = last.preLen + last.size
    /\ free_ranges = last.preFree
    /\ \E k \in 1..last.preLen : buffer[k] # Default

\* ------------------------------ the buffer of an arena or of a sequence

\* A run is the life of one FlatObjectPool: one used directly, or the one a
\* DataPointSequence owns.  The first call decides which.
ArenaOps == {"new", "acquire", "release", "set", "get_mut", "get_slice_mut"}
SeqOps == {"new", "add_point", "add_points", "update", "seq_clear"}

InitBuffer == InitArena \/ InitSeq

NextBuffer ==
    \/ last.op \in ArenaOps /\ NextArena
    \/ last.op \in SeqOps /\ NextSeq

SpecBuffer == InitBuffer /\ [][NextBuffer]_vars

\* The place (from 1) of the first range of fr that is at least size long,
\* 0 when there is none.
FirstFit(fr, size) ==
    LET fits == {k \in 1..Len(fr) : RangeLen(fr[k]) >= size}
    IN IF fits = {} THEN 0 ELSE CHOOSE k \in fits : \A j \in fits : k <= j

\* The sequence v without its element at place i (from 1).
Without(v, i) == SubSeq(v, 1, i - 1) \o SubSeq(v, i + 1, Len(v))

\* C21 (SpecLoan): acquire(size) is served from the first range of the free
\* list, in insertion order, that is at least size long, and returns that
\* range's prefix; the ranges before it, and those after it, keep their
\* places and order, even when a later range has exactly the length asked.
C21_FirstFit ==
    last.op = "acquire" =>
        LET i == FirstFit(last.preFree, last.size) IN
        i >= 1 =>
            /\ last.ret = <<last.preFree[i][1], last.preFree[i][1] + last.size>>
            /\ SubSeq(free_ranges, 1, i - 1) = SubSeq(last.preFree, 1, i - 1)
            /\ SubSeq(free_ranges, 1, Len(last.preFree) - 1)
                   = Without(last.preFree, i)

\* The first free range was longer than the request and the second had
\* exactly its length: the prefix of the first was returned.
C21_Witness ==
    /\ last.op = "acquire"
    /\ last.size >= 1
    /\ Len(last.preFree) = 2
    /\ RangeLen(last.preFree[1]) > last.size
    /\ RangeLen(last.preFree[2]) = last.size
    /\ last.ret[1] = last.preFree[1][1]
    /\ free_ranges[1] = last.preFree[2]

\* C23 (SpecArena): every range of the free list, every range on loan and
\* the range the latest acquire returned satisfy begin <= end <=
\* buffer_size(), and the returned range is exactly as long as requested.
C23_RangeInvariant ==
    /\ \A k \in 1..Len(free_ranges) :
          /\ free_ranges[k][1] <= free_ranges[k][2]
          /\ free_ranges[k][2] <= buffer_size
    /\ \A r \in BagToSet(loans) : r[1] <= r[2] /\ r[2] <= buffer_size
    /\ last.op = "acquire" =>
          /\ last.ret[1] <= last.ret[2]
          /\ last.ret[2] <= buffer_size
          /\ last.ret[2] - last.ret[1] = last.size

\* An acquire was served from the free list of a buffer that had grown past
\* its initial size.
C23_Witness ==
    /\ last.op = "acquire"
    /\ last.size >= 1
    /\ Len(last.preFree) >= 1
    /\ last.ret = last.preFree[1]
    /\ last.ret[2] <= buffer_size
    /\ initial_size < buffer_size
    /\ BagIn(last.ret, loans)

\* C25 (SpecLoan): a range that release keeps and the leftover of a split
\* are appended at the tail of the free list; with two free ranges, after an
\* acquire that splits the first, the next acquire that the second range
\* fits is served from the second, not from the leftover.
C25_TailInsertion ==
    /\ (last.op = "release" /\ Len(last.preFree) < capacity) =>
          free_ranges = Append(last.preFree, <<last.begin, last.end>>)
    /\ last.op = "acquire" =>
          LET i == FirstFit(last.preFree, last.size) IN
          (i >= 1 /\ RangeLen(last.preFree[i]) > last.size) =>
              free_ranges =
                  Append(Without(last.preFree, i),
                         <<last.preFree[i][1] + last.size, last.preFree[i][2]>>)
    /\ (prev.op = "acquire" /\ last.op = "acquire"
          /\ Len(prev.preFree) = 2
          /\ prev.size < RangeLen(prev.preFree[1])
          /\ last.size <= RangeLen(prev.preFree[2])) =>
          last.ret[1] = prev.preFree[2][1]

\* Two ranges were free, the first was split, and the next acquire, which
\* the leftover would also fit, was served from the second range.
C25_Witness ==
    /\ prev.op = "acquire" /\ last.op = "acquire"
    /\ Len(prev.preFree) = 2
    /\ 1 <= prev.size
    /\ prev.size < RangeLen(prev.preFree[1])
    /\ 1 <= last.size
    /\ last.size <= RangeLen(prev.preFree[2])
    /\ last.size <= RangeLen(prev.preFree[1]) - prev.size
    /\ last.ret[1] = prev.preFree[2][1]

\* C26 (SpecDrop): when acquire(size) matches a free range longer than
\* size, taking the range out leaves fewer than capacity entries, so the
\* leftover is put back: available_count() is what it was and the leftover
\* is the last entry of the free list.
C26_LeftoverKept ==
    last.op = "acquire" =>
        LET i == FirstFit(last.preFree, last.size) IN
        (i >= 1 /\ RangeLen(last.preFree[i]) > last.size) =>
            /\ Len(last.preFree) - 1 < capacity
            /\ available_count = Len(last.preFree)
            /\ free_ranges[available_count] =
                   <<last.preFree[i][1] + last.size, last.preFree[i][2]>>

\* A range was split while the free list was full.
C26_Witness ==
    /\ last.op = "acquire"
    /\ last.size >= 1
    /\ capacity >= 1
    /\ Len(last.preFree) = capacity
    /\ RangeLen(last.preFree[1]) > last.size
    /\ available_count = capacity

\* C29 (SpecLoan): acquire(0) leaves buffer_size() and available_count() as
\* they were; on an empty free list it returns (buffer_size(),
\* buffer_size()), otherwise (b,b) for b the begin of the first free range,
\* which moves unchanged from the head of the list to its tail.
C29_AcquireZero ==
    (last.op = "acquire" /\ last.size = 0) =>
        /\ buffer_size = last.preLen
        /\ available_count = Len(last.preFree)
        /\ IF last.preFree = <<>>
           THEN last.ret = <<last.preLen, last.preLen>>
           ELSE /\ last.ret = <<last.preFree[1][1], last.preFree[1][1]>>
                /\ free_ranges = Append(Tail(last.preFree), Head(last.preFree))

\* acquire(0) on a free list of two ranges.
C29_Witness ==
    /\ last.op = "acquire"
    /\ last.size = 0
    /\ Len(last.preFree) = 2
    /\ last.preFree[1] # last.preFree[2]
    /\ free_ranges = <<last.preFree[2], last.preFree[1]>>

\* C30 (SpecSwap): for every pool capacity, pool_available() is 0 after
\* construction and after every swap() and clear().
C30_PoolEmpty == Pool_available_count = 0

\* A swap of two non-empty vectors on a pool that can hold two.
C30_Witness ==
    /\ last.op = "swap"
    /\ pool_capacity >= 2
    /\ Len(last.preFront) >= 1
    /\ Len(last.preBack) >= 1
    /\ Pool_available_count = 0

\* The ranges r1 and r2 share a slot.
SharesSlot(r1, r2) == \E i \in r1[1]..(r1[2] - 1) : r2[1] <= i /\ i < r2[2]

\* C22 as stated (SpecDrop): a valid release on a full free list leaves the
\* list as it was and the slots cleared, and no later acquire returns a
\* range that shares a slot with a range so dropped and not released since.
C22_DropOnFull_Original ==
    /\ (ValidRelease(last) /\ Len(last.preFree) = capacity) =>
          /\ free_ranges = last.preFree
          /\ \A i \in last.begin..(last.end - 1) : buffer[i + 1] = Default
    /\ last.op = "acquire" => \A d \in dropped : ~SharesSlot(last.ret, d)

\* C22 (SpecDrop): a valid release on a full free list leaves the list as it
\* was and the slots cleared; and when every release so far passed a range
\* on loan, no later acquire returns a range that shares a slot with a
\* range so dropped.
C22_DropOnFull ==
    /\ (ValidRelease(last) /\ Len(last.preFree) = capacity) =>
          /\ free_ranges = last.preFree
          /\ \A i \in last.begin..(last.end - 1) : buffer[i + 1] = Default
    /\ (last.op = "acquire" /\ ~misused) =>
          \A d \in dropped : ~SharesSlot(last.ret, d)

\* A range on loan was dropped by a release on a full free list of capacity
\* 1, and a later acquire was served from the free list.
C22_Witness ==
    /\ ~misused
    /\ capacity >= 1
    /\ dropped # {}
    /\ last.op = "acquire"
    /\ last.size >= 1
    /\ last.ret[2] <= last.preLen
    /\ \A d \in dropped : ~SharesSlot(last.ret, d)

\* C24 (SpecBuffer): in every step of an arena (acquire, release, set,
\* writes through get_mut and get_slice_mut) and of a sequence (add_point,
\* add_points, update, clear) buffer_size() does not decrease, and it is
\* never below the initial size given at construction.
C24_NeverShrinks ==
    [][ /\ Len(buffer) >= initial_size
        /\ Len(buffer') >= Len(buffer)
        /\ Len(buffer') >= initial_size' ]_vars

\* A sequence whose buffer had grown past a non-zero initial size was
\* cleared and the buffer kept its length.
C24_Witness ==
    /\ last.op = "seq_clear"
    /\ initial_size >= 1
    /\ last.preLen > initial_size
    /\ buffer_size = last.preLen

\* How many ranges on loan, entries of the free list and dropped ranges
\* hold slot i.
Holders(i) ==
    LET holds(r) == r[1] <= i /\ i < r[2] IN
    Cardinality({r \in BagToSet(loans) : holds(r)})
      + Cardinality({k \in 1..Len(free_ranges) : holds(free_ranges[k])})
      + Cardinality({d \in dropped : holds(d)})

\* C27 (SpecTidy): when every acquire has size >= 1, every release passes a
\* range on loan and set writes only inside ranges on loan, the ranges on
\* loan, the free ranges and the ranges dropped on a full free list are
\* pairwise disjoint and cover exactly [initial size, buffer_size()); so no
\* acquire returns a slot of the initial buffer.
C27_SlotAccounting ==
    /\ \A r \in BagToSet(loans) : CopiesIn(r, loans) = 1
    /\ \A i \in 0..(buffer_size - 1) :
          Holders(i) = IF i < initial_size THEN 0 ELSE 1
    /\ \A r \in BagToSet(loans) \cup dropped : r[2] <= buffer_size
    /\ \A k \in 1..Len(free_ranges) : free_ranges[k][2] <= buffer_size
    /\ last.op = "acquire" => last.ret[1] >= initial_size

\* Behind a non-empty initial buffer there are a range on loan with a
\* written slot, a free range and a dropped range.
C27_Witness ==
    /\ initial_size >= 1
    /\ free_ranges # <<>>
    /\ dropped # {}
    /\ \E r \in BagToSet(loans) : buffer[r[1] + 1] # Default
    /\ \A i \in 0..(initial_size - 1) : Holders(i) = 0

\* The two latest calls released the same valid range and the free list had
\* room both times.
ReleasedTwice ==
    /\ ValidRelease(prev) /\ ValidRelease(last)
    /\ prev.begin = last.begin /\ prev.end = last.end
    /\ Len(prev.preFree) < capacity
    /\ Len(last.preFree) < capacity

\* Two acquire(size) calls made next both return r.
NextTwoAcquiresReturn(r, size) ==
    LET a1 == Flat_acquire(buffer, free_ranges, capacity, size)
        a2 == Flat_acquire(a1.buffer, a1.free_ranges, capacity, size)
    IN a1.ret = r /\ a2.ret = r

\* C28 as stated (SpecDouble): after two releases of the same valid range
\* (b,e), both with room in the free list, the list holds (b,e) twice more,
\* available_count() is two higher, and the next two acquire(e-b) calls
\* both return (b,e).
C28_DoubleRelease_Original ==
    ReleasedTwice =>
        /\ free_ranges = prev.preFree \o << <<last.begin, last.end>>,
                                             <<last.begin, last.end>> >>
        /\ available_count = Len(prev.preFree) + 2
        /\ NextTwoAcquiresReturn(<<last.begin, last.end>>,
                                 last.end - last.begin)

\* C28 (SpecDouble): after two releases of the same valid range (b,e), both
\* with room in the free list, the list holds (b,e) twice more and
\* available_count() is two higher; when no range that was already free is
\* at least e-b long, the next two acquire(e-b) calls both return (b,e).
C28_DoubleRelease ==
    ReleasedTwice =>
        /\ free_ranges = prev.preFree \o << <<last.begin, last.end>>,
                                             <<last.begin, last.end>> >>
        /\ available_count = Len(prev.preFree) + 2
        /\ FirstFit(prev.preFree, last.end - last.begin) = 0 =>
              NextTwoAcquiresReturn(<<last.begin, last.end>>,
                                    last.end - last.begin)

\* A range released twice was acquired twice while another range stayed
\* free: it is on loan two times over.
C28_Witness ==
    /\ prev.op = "acquire" /\ last.op = "acquire"
    /\ prev.ret = last.ret
    /\ last.ret[1] < last.ret[2]
    /\ CopiesIn(last.ret, loans) = 2
    /\ free_ranges # <<>>

\* C31 (SpecSeq): after clear() every slot of the buffer holds the default,
\* slots of pending values included; in every state the slots from next_end
\* on hold the default and current() lists, in order, values added since
\* the latest new or clear and nothing else.
C31_NoStaleData ==
    /\ last.op = "seq_clear" =>
          \A k \in 1..buffer_size : buffer[k] = Default
    /\ \A k \in (next_end + 1)..buffer_size : buffer[k] = Default
    /\ Len(log) = next_end
    /\ \A k \in 1..current_end : Seq_current[k] = log[k]

\* clear() was called with visible values and with pending values other
\* than the default: the whole buffer now reads as the default.
C31_Witness ==
    /\ last.op = "seq_clear"
    /\ last.stale
    /\ last.preCurrentEnd >= 1
    /\ last.preNextEnd = buffer_size
    /\ \A k \in 1..buffer_size : buffer[k] = Default

\* C32 (SpecSeq): buffer_size() is the larger of the initial buffer size and
\* the largest next_end reached since construction, resets included, and
\* the free list of the underlying pool is empty.
C32_HighWaterMark ==
    /\ buffer_size = Max(initial_size, peak)
    /\ available_count = 0

\* After a reset of a sequence that had outgrown its initial buffer, a
\* value was added below the high-water mark and the buffer did not grow.
C32_Witness ==
    /\ last.op = "add_point"
    /\ initial_size >= 1
    /\ peak > initial_size
    /\ next_end < peak
    /\ buffer_size = peak

====
